---- MODULE Spec2Model ----
(***************************************************************************)
(* Model of grsync's Task (task.go): the Run coordinator, the two output   *)
(* drains with their bufio.Scanner, and the per-line extraction of the     *)
(* progress state.                                                         *)
(*                                                                         *)
(* Text is a sequence of one-character strings.  Go indexes from 0 and     *)
(* reports "not found" as -1; here indexes start at 1 and 0 is "not found".*)
(* A float64 is kept as the exact rational [num, den] (no rounding).       *)
(***************************************************************************)
EXTENDS Integers, Sequences, FiniteSets, TLC

VARIABLES
    pc,        \* position of Task.Run in its body
    ret,       \* value returned by Task.Run ("none" until it returns)
    err,       \* the local err of Task.Run
    wg,        \* counter of the sync.WaitGroup
    state,     \* *t.state
    log,       \* *t.log
    proc,      \* the external process: "notStarted", "running", "exited"
    exitErr,   \* the error the process-exit wait yields
    order,     \* the order in which the process writes to its two streams
    outPend,   \* bytes the process still has to write to stdout
    errPend,   \* bytes the process still has to write to stderr
    outPipe,   \* bytes in the stdout pipe, written and not yet read
    errPipe,   \* bytes in the stderr pipe
    rdClosed,  \* read ends closed by the deferred Close calls
    outPC,     \* position of processStdout
    outBuf,    \* stdout scanner: buffered bytes not yet consumed
    outEOF,    \* stdout scanner: a read has returned EOF or an error
    logStr,    \* processStdout: the line being processed
    errPC,     \* position of processStderr
    errBuf,    \* stderr scanner: buffered bytes
    errEOF,    \* stderr scanner: a read has returned EOF or an error
    outLines,  \* history: the tokens the stdout scanner has returned
    errLines,  \* history: the tokens the stderr scanner has returned
    outSent,   \* history: every byte the process has written to stdout
    errSent    \* history: every byte the process has written to stderr

vars == <<pc, ret, err, wg, state, log, proc, exitErr, order, outPend, errPend,
          outPipe, errPipe, rdClosed, outPC, outBuf, outEOF, logStr,
          errPC, errBuf, errEOF, outLines, errLines, outSent, errSent>>

----------------------------------------------------------------------------
(* Bounds *)

\* capacity of one pipe, in bytes
PipeCap == 2
\* largest number of bytes the scanner buffers while looking for one token
\* (bufio.MaxScanTokenSize, 64 KiB, scaled down)
MaxScanTokenSize == 12
\* number of lines fed in the line-processing specification
MaxFeed == 2

----------------------------------------------------------------------------
(* Text helpers *)

CR == "\r"
LF == "\n"

Min(a, b) == IF a < b THEN a ELSE b
Max(a, b) == IF a > b THEN a ELSE b

Take(s, n) == SubSeq(s, 1, n)
Drop(s, n) == SubSeq(s, n + 1, Len(s))

\* n copies of the character c
Repeat(c, n) == [i \in 1..n |-> c]

\* bytes.IndexAny / strings.Index, 1-based, 0 when absent
IndexAny(s, chars) ==
    IF \E i \in 1..Len(s) : s[i] \in chars
    THEN CHOOSE i \in 1..Len(s) : s[i] \in chars /\ \A j \in 1..(i - 1) : s[j] \notin chars
    ELSE 0

HasPrefix(s, p) == Len(s) >= Len(p) /\ Take(s, Len(p)) = p
HasSuffix(s, p) == Len(s) >= Len(p) /\ Drop(s, Len(s) - Len(p)) = p
\* the text p occurs in s at position i
OccursAt(s, p, i) == i >= 1 /\ i + Len(p) - 1 <= Len(s) /\ SubSeq(s, i, i + Len(p) - 1) = p
Contains(s, p) == \E i \in 1..(Len(s) + 1) : OccursAt(s, p, i)
IsPrefixOf(p, s) == HasPrefix(s, p)

Digits == {"0", "1", "2", "3", "4", "5", "6", "7", "8", "9"}
DigitVal(c) == CASE c = "0" -> 0 [] c = "1" -> 1 [] c = "2" -> 2 [] c = "3" -> 3
                 [] c = "4" -> 4 [] c = "5" -> 5 [] c = "6" -> 6 [] c = "7" -> 7
                 [] c = "8" -> 8 [] c = "9" -> 9
\* regexp classes: \s and .
Spaces == {" ", "\t", "\n", "\r", "\f"}
Dot(c) == c # LF
AllDigits(s) == \A i \in 1..Len(s) : s[i] \in Digits

RECURSIVE DecVal(_)
DecVal(s) == IF s = <<>> THEN 0 ELSE 10 * DecVal(Take(s, Len(s) - 1)) + DigitVal(s[Len(s)])

RECURSIVE Pow(_, _)
Pow(b, n) == IF n = 0 THEN 1 ELSE b * Pow(b, n - 1)

\* strconv.Atoi with the error discarded: 0 for text that is not an
\* optionally signed run of decimal digits
Atoi(s) ==
    LET signed == s # <<>> /\ s[1] \in {"+", "-"}
        body   == IF signed THEN Drop(s, 1) ELSE s
    IN  IF body = <<>> \/ ~AllDigits(body) THEN 0
        ELSE IF signed /\ s[1] = "-" THEN 0 - DecVal(body) ELSE DecVal(body)

\* strings.Split(s, sep) for a one-character separator
RECURSIVE Split(_, _)
Split(s, sep) ==
    LET i == IndexAny(s, {sep})
    IN  IF i = 0 THEN <<s>> ELSE <<Take(s, i - 1)>> \o Split(Drop(s, i), sep)

\* strings.ReplaceAll(s, c, "")
RECURSIVE RemoveAll(_, _)
RemoveAll(s, c) ==
    IF s = <<>> THEN <<>>
    ELSE IF s[1] = c THEN RemoveAll(Drop(s, 1), c) ELSE <<s[1]>> \o RemoveAll(Drop(s, 1), c)

\* strings.TrimSpace
RECURSIVE TrimSpace(_)
TrimSpace(s) ==
    IF s = <<>> THEN <<>>
    ELSE IF s[1] \in Spaces THEN TrimSpace(Drop(s, 1))
    ELSE IF s[Len(s)] \in Spaces THEN TrimSpace(Take(s, Len(s) - 1))
    ELSE s

----------------------------------------------------------------------------
(* Line splitting *)

NoToken == [advance |-> 0, has |-> FALSE, token |-> <<>>]

\* the split function of the stdout scanner
scanProgressLines(data, atEOF) ==
    LET i == IndexAny(data, {CR, LF})
    IN  IF atEOF /\ Len(data) = 0 THEN NoToken
        ELSE IF i > 0
        THEN IF data[i] = LF
             THEN [advance |-> i, has |-> TRUE, token |-> Take(data, i - 1)]
             ELSE [advance |-> IF Len(data) > i /\ data[i + 1] = LF THEN i + 1 ELSE i,
                   has |-> TRUE, token |-> Take(data, i - 1)]
        ELSE IF atEOF THEN [advance |-> Len(data), has |-> TRUE, token |-> data]
        ELSE NoToken

dropCR(data) ==
    IF Len(data) > 0 /\ data[Len(data)] = CR THEN Take(data, Len(data) - 1) ELSE data

\* bufio.ScanLines, the split function a Scanner has when Split is not called
ScanLines(data, atEOF) ==
    LET i == IndexAny(data, {LF})
    IN  IF atEOF /\ Len(data) = 0 THEN NoToken
        ELSE IF i > 0 THEN [advance |-> i, has |-> TRUE, token |-> dropCR(Take(data, i - 1))]
        ELSE IF atEOF THEN [advance |-> Len(data), has |-> TRUE, token |-> dropCR(data)]
        ELSE NoToken

----------------------------------------------------------------------------
(* The three matchers of processStdout.  A match is the leftmost one; among *)
(* the matches at one start a greedy operator takes the longest text that   *)
(* lets the rest of the pattern match.                                      *)

MinOf(S) == CHOOSE x \in S : \A y \in S : x <= y
MaxOf(S) == CHOOSE x \in S : \A y \in S : x >= y

AllDot(s, from, to) == \A n \in from..to : Dot(s[n])
DigitsIn(s, from, to) == from <= to /\ \A n \in from..to : s[n] \in Digits

\* the ends b of a text \d+.\d+ that starts at k, by the end a of the first \d+
GroupEnds(s, k, a) ==
    {b \in (a + 2)..Len(s) : s[b] \in Digits /\ Dot(s[a + 1]) /\ DigitsIn(s, k, a)
                               /\ DigitsIn(s, a + 2, b)}
GroupFirstEnds(s, k) == {a \in k..Len(s) : s[a] \in Digits /\ GroupEnds(s, k, a) # {}}
\* the text captured by (\d+.\d+) at k
GroupAt(s, k) ==
    LET a == MaxOf(GroupFirstEnds(s, k))
    IN  SubSeq(s, k, MaxOf(GroupEnds(s, k, a)))

Chk == <<"-", "c", "h", "k", "=">>

\* progressMatcher: \(.+-chk=(\d+.\d+)
\* the positions j of "-chk=" in the matches that start with "(" at i
progressChkAt(s, i) ==
    {j \in (i + 2)..Len(s) : /\ s[i] = "("
                             /\ OccursAt(s, Chk, j)
                             /\ AllDot(s, i + 1, j - 1)
                             /\ GroupFirstEnds(s, j + 5) # {}}
progressStarts(s) == {i \in 1..Len(s) : progressChkAt(s, i) # {}}
progressMatch(s) == progressStarts(s) # {}
progressExtract(s) ==
    IF ~progressMatch(s) THEN <<>>
    ELSE LET i == MinOf(progressStarts(s))
             j == MaxOf(progressChkAt(s, i))
         IN  GroupAt(s, j + 5)

\* speedMatcher: (\d+\.\d+.{2}\/s)
\* the ends c of the second \d+ in the matches that start at i with first \d+ ending at a
speedSecondEnds(s, i, a) ==
    {c \in (a + 2)..(Len(s) - 4) : /\ s[a + 1] = "."
                                   /\ s[c + 3] = "/" /\ s[c + 4] = "s"
                                   /\ Dot(s[c + 1]) /\ Dot(s[c + 2])
                                   /\ DigitsIn(s, i, a)
                                   /\ DigitsIn(s, a + 2, c)}
speedFirstEnds(s, i) ==
    {a \in i..(Len(s) - 1) : s[a + 1] = "." /\ speedSecondEnds(s, i, a) # {}}
speedStarts(s) == {i \in 1..Len(s) : s[i] \in Digits /\ speedFirstEnds(s, i) # {}}
speedMatch(s) == speedStarts(s) # {}
\* the end of the leftmost match
speedEnd(s) ==
    LET i == MinOf(speedStarts(s))
        a == MaxOf(speedFirstEnds(s, i))
    IN  MaxOf(speedSecondEnds(s, i, a)) + 4
\* ExtractAllStringSubmatch(s, n): at most n successive matches, each the
\* pair <<whole match, first group>>
RECURSIVE speedExtractAll(_, _)
speedExtractAll(s, n) ==
    IF n = 0 \/ ~speedMatch(s) THEN <<>>
    ELSE LET m == SubSeq(s, MinOf(speedStarts(s)), speedEnd(s))
         IN  <<(<<m, m>>)>> \o speedExtractAll(Drop(s, speedEnd(s)), n - 1)

\* transferedMatcher: (\S+.*)%
transferedEnds(s, i) ==
    {p \in (i + 1)..Len(s) : s[p] = "%" /\ s[i] \notin Spaces /\ AllDot(s, i + 1, p - 1)}
transferedStarts(s) == {i \in 1..Len(s) : transferedEnds(s, i) # {}}
transferedMatch(s) == transferedStarts(s) # {}
transferedExtract(s) ==
    IF ~transferedMatch(s) THEN <<>>
    ELSE LET i == MinOf(transferedStarts(s))
         IN  SubSeq(s, i, MaxOf(transferedEnds(s, i)) - 1)

----------------------------------------------------------------------------
(* Extraction *)

\* getTaskProgress with the two halves exchanged
getTaskProgress_Swapped(remTotalString) ==
    LET info == Split(remTotalString, "/")
    IN  IF Len(info) < 2 THEN [remain |-> 0, total |-> 0]
        ELSE [remain |-> Atoi(info[2]), total |-> Atoi(info[1])]
getTaskProgress(remTotalString) ==
    LET info == Split(remTotalString, "/")
    IN  IF Len(info) < 2 THEN [remain |-> 0, total |-> 0]
        ELSE [remain |-> Atoi(info[1]), total |-> Atoi(info[2])]

getTaskSpeed(data) ==
    IF Len(data) < 1 \/ Len(data[1]) < 1 THEN <<>> ELSE data[1][1]

\* strconv.ParseFloat with the error discarded, for decimal text with an
\* optional sign and an optional fraction; the value is
\* (IF neg THEN -1 ELSE 1) * mant / 10^frac, and 0 for any other text.
\* (Exponents, hexadecimal text, "inf" and "nan" are outside the model.)
ParseFloat(s) ==
    LET signed == s # <<>> /\ s[1] \in {"+", "-"}
        body   == IF signed THEN Drop(s, 1) ELSE s
        point  == IndexAny(body, {"."})
        whole  == IF point = 0 THEN body ELSE Take(body, point - 1)
        fract  == IF point = 0 THEN <<>> ELSE Drop(body, point)
    IN  IF whole \o fract = <<>> \/ ~AllDigits(whole \o fract)
        THEN [neg |-> FALSE, mant |-> 0, frac |-> 0]
        ELSE [neg |-> signed /\ s[1] = "-", mant |-> DecVal(whole \o fract), frac |-> Len(fract)]

\* An int64 as sign and magnitude, the magnitude in two decimal limbs
\* (hi * Limb + lo), so that byte counts beyond 2^31 can be told apart.
Limb == Pow(10, 6)
Int64(n) ==
    LET m == IF n < 0 THEN 0 - n ELSE n
    IN  [neg |-> n < 0, hi |-> m \div Limb, lo |-> m % Limb]

\* v stands for (v.hi * Limb + v.lo) + v.r / den; the result is v * 1024^k
RECURSIVE Times1024(_, _, _)
Times1024(v, den, k) ==
    IF k = 0 THEN v
    ELSE LET r2  == v.r * 1024
             lo2 == v.lo * 1024 + r2 \div den
         IN  Times1024([hi |-> v.hi * 1024 + lo2 \div Limb, lo |-> lo2 % Limb,
                        r |-> r2 % den], den, k - 1)

\* int64(number * 1024 * ... * 1024) with k factors: the product truncated
\* toward zero.  (The float64 product differs from the exact one by less
\* than the distance of the exact one to an integer for the at most two
\* fraction digits and the magnitudes used here.)
TruncMul(number, k) ==
    LET den == Pow(10, number.frac)
        q   == number.mant \div den
        v   == Times1024([hi |-> q \div Limb, lo |-> q % Limb, r |-> number.mant % den], den, k)
    IN  [neg |-> number.neg /\ (v.hi # 0 \/ v.lo # 0), hi |-> v.hi, lo |-> v.lo]

units == << <<"K", "B">>, <<"K">>, <<"M", "B">>, <<"M">>,
            <<"G", "B">>, <<"G">>, <<"T", "B">>, <<"T">> >>

\* the index in units of the first unit that is a suffix of s, 0 if none
firstUnit(s) ==
    IF \E n \in 1..Len(units) : HasSuffix(s, units[n])
    THEN MinOf({n \in 1..Len(units) : HasSuffix(s, units[n])})
    ELSE 0

\* unitPower with G and GB taken for M and MB
unitPower_GigaAsMega(u) ==
    CASE u \in {1, 2} -> 1
      [] u \in {3, 4, 5, 6} -> 2
      [] u \in {7, 8} -> 4
      [] OTHER -> 0

\* the number of factors 1024 in the switch over the unit
unitPower(u) ==
    CASE u \in {1, 2} -> 1
      [] u \in {3, 4} -> 2
      [] u \in {5, 6} -> 3
      [] u \in {7, 8} -> 4
      [] OTHER -> 0

getTaskTransfered(transfered) ==
    LET info       == Split(transfered, " ")
        percentStr == info[Len(info)]
        u          == firstUnit(info[1])
        numberStr  == IF u = 0 THEN info[1] ELSE Take(info[1], Len(info[1]) - Len(units[u]))
        number     == ParseFloat(TrimSpace(RemoveAll(numberStr, ",")))
    IN  IF Len(info) < 2 THEN [bytes |-> Int64(0), percent |-> 0]
        ELSE [bytes |-> TruncMul(number, unitPower(u)), percent |-> Atoi(percentStr)]

verbose == {
    <<"b", "u", "i", "l", "d", "i", "n", "g", " ", "f", "i", "l", "e", " ", "l", "i", "s", "t", " ">>,
    <<"s", "e", "n", "d", "i", "n", "g", " ">>,
    <<"c", "r", "e", "a", "t", "e", "d", " ">>,
    <<"d", "o", "n", "e">>,
    <<"t", "o", "t", "a", "l", " ">>,
    <<"t", "o", "t", "a", "l", ":", " ">>,
    <<"c", "l", "i", "e", "n", "t", " ">>,
    <<"s", "e", "r", "v", "e", "r", " ">>,
    <<"t", "o", " ", "c", "o", "n", "s", "i", "d", "e", "r">>,
    <<"t", "o", "-", "c", "h", "k", "=">>,
    <<"t", "o", "-", "c", "h", "e", "c", "k", "=">> }

\* isFilename without the test for a directory name
isFilename_NoDirCheck(str) ==
    /\ str # <<>>
    /\ ~HasPrefix(str, <<" ", " ", " ", " ", " ", " ">>)
    /\ ~HasPrefix(str, <<" ">>)
    /\ \A v \in verbose : ~Contains(str, v)
    /\ ~HasPrefix(str, <<"s", "e", "n", "t">>)
isFilename(str) ==
    /\ str # <<>>
    /\ ~HasPrefix(str, <<" ", " ", " ", " ", " ", " ">>)
    /\ ~HasPrefix(str, <<" ">>)
    /\ \A v \in verbose : ~Contains(str, v)
    /\ ~HasPrefix(str, <<"s", "e", "n", "t">>)
    /\ ~HasSuffix(str, <<"/">>)

----------------------------------------------------------------------------
(* The shared record and the stores of processStdout's loop body *)

\* &State{}
EmptyState == [Remain |-> 0, Total |-> 0, Speed |-> <<>>,
               Progress |-> [num |-> 0, den |-> 1], Filename |-> <<>>,
               TransferedBytes |-> Int64(0), TransferedPercent |-> 0]
\* &Log{}
EmptyLog == [Stderr |-> <<>>, Stdout |-> <<>>]

\* Task.State() and Task.Log(): a copy of the record as it is when called
State == state
Log == [Stderr |-> log.Stderr, Stdout |-> log.Stdout]

minDivider == 1
maxPercents == 100

\* progressOf without the guard against a zero total
progressOf_NoMinDivider(remain, total) ==
    [num |-> (total - remain) * maxPercents, den |-> total]
\* progressOf with the operands of the subtraction exchanged
progressOf_Swapped(remain, total) ==
    [num |-> (remain - total) * maxPercents, den |-> Max(total, minDivider)]

\* copiedCount / math.Max(float64(Total), float64(minDivider)) * maxPercents
progressOf(remain, total) ==
    [num |-> (total - remain) * maxPercents, den |-> Max(total, minDivider)]

storeRemain(st, l) ==
    IF progressMatch(l)
    THEN [st EXCEPT !.Remain = getTaskProgress(progressExtract(l)).remain] ELSE st
storeTotal(st, l) ==
    IF progressMatch(l)
    THEN [st EXCEPT !.Total = getTaskProgress(progressExtract(l)).total] ELSE st
storeProgress(st, l) ==
    IF progressMatch(l)
    THEN [st EXCEPT !.Progress = progressOf(st.Remain, st.Total)] ELSE st
\* storeSpeed that stores the (empty) result also when the matcher fails
storeSpeed_Always(st, l) ==
    [st EXCEPT !.Speed = getTaskSpeed(speedExtractAll(l, 2))]
storeSpeed(st, l) ==
    IF speedMatch(l)
    THEN [st EXCEPT !.Speed = getTaskSpeed(speedExtractAll(l, 2))] ELSE st
storeBytes(st, l) ==
    IF transferedMatch(l)
    THEN [st EXCEPT !.TransferedBytes = getTaskTransfered(transferedExtract(l)).bytes] ELSE st
storePercent(st, l) ==
    IF transferedMatch(l)
    THEN [st EXCEPT !.TransferedPercent = getTaskTransfered(transferedExtract(l)).percent] ELSE st
storeFilename(st, l) ==
    IF isFilename(l) THEN [st EXCEPT !.Filename = l] ELSE st

\* appendStdout that puts the new line in front of the log
appendStdout_Prepend(lg, l) == [lg EXCEPT !.Stdout = l \o <<LF>> \o @]

\* task.log.Stdout += logStr + "\n"
appendStdout(lg, l) == [lg EXCEPT !.Stdout = @ \o l \o <<LF>>]
\* appendStderr that writes the line to the stdout log
appendStderr_ToStdout(lg, l) == [lg EXCEPT !.Stdout = @ \o l \o <<LF>>]
\* task.log.Stderr += scanner.Text() + "\n"
appendStderr(lg, l) == [lg EXCEPT !.Stderr = @ \o l \o <<LF>>]

\* one pass of the loop body of processStdout over the line l
processStdoutLine(st, l) ==
    storeFilename(storePercent(storeBytes(storeSpeed(
        storeProgress(storeTotal(storeRemain(st, l), l), l), l), l), l), l)

----------------------------------------------------------------------------
(* What the external process writes *)

CounterLines ==
    <<"(", "x", "-", "c", "h", "k", "=", "1", "/", "2", CR,
      "(", "x", "-", "c", "h", "k", "=", "0", "/", "2", LF>>
TransferLines == <<"5", " ", "9", "%", CR, LF, "f">>
\* a line one byte too long for the scanner's buffer
LongLine == Repeat("a", MaxScanTokenSize) \o <<LF>>
\* a run without a delimiter that overfills the scanner's buffer and the pipe
LongRun == Repeat("a", MaxScanTokenSize + PipeCap + 1)

StdoutStreams == {<<>>, CounterLines, TransferLines, LongLine, LongRun}
StderrStreams == {<<>>, <<"e", CR, "r", LF>>}
Orders == {"outFirst", "errFirst", "alternate"}
ExitErrors == {"nil", "exit status 1"}
PipeErrors == {"nil", "pipe error"}

----------------------------------------------------------------------------
(* NewTask *)

Init ==
    /\ pc = "new" /\ ret = "none" /\ err = "nil" /\ wg = 0
    /\ state = EmptyState /\ log = EmptyLog
    /\ proc = "notStarted" /\ exitErr = "nil" /\ order = "outFirst"
    /\ outPend = <<>> /\ errPend = <<>> /\ outPipe = <<>> /\ errPipe = <<>>
    /\ rdClosed = {}
    /\ outPC = "idle" /\ outBuf = <<>> /\ outEOF = FALSE /\ logStr = <<>>
    /\ errPC = "idle" /\ errBuf = <<>> /\ errEOF = FALSE
    /\ outLines = <<>> /\ errLines = <<>> /\ outSent = <<>> /\ errSent = <<>>

procVars == <<proc, exitErr, order, outPend, errPend, outSent, errSent>>
pipeVars == <<outPipe, errPipe>>
runVars == <<pc, ret, err, rdClosed>>
outVars == <<outPC, outBuf, outEOF, logStr, outLines>>
errVars == <<errPC, errBuf, errEOF, errLines>>

----------------------------------------------------------------------------
(* Task.Run *)

\* stderr, err := t.rsync.StderrPipe(); if err != nil { return err }
RunStderrPipe ==
    /\ pc = "new"
    /\ \E e \in PipeErrors :
        /\ err' = e
        /\ IF e = "nil" THEN pc' = "stdoutPipe" /\ UNCHANGED <<ret, rdClosed>>
           ELSE pc' = "returned" /\ ret' = e /\ UNCHANGED rdClosed
    /\ UNCHANGED <<wg, state, log, procVars, pipeVars, outVars, errVars>>

\* RunStdoutPipe that goes on after a failure
RunStdoutPipe_IgnoreErr ==
    /\ pc = "stdoutPipe"
    /\ err' \in PipeErrors /\ pc' = "goStdout"
    /\ UNCHANGED <<ret, rdClosed, wg, state, log, procVars, pipeVars, outVars, errVars>>

\* stdout, err := t.rsync.StdoutPipe(); if err != nil { return err }
\* (the deferred stderr.Close() runs on this return)
RunStdoutPipe ==
    /\ pc = "stdoutPipe"
    /\ \E e \in PipeErrors :
        /\ err' = e
        /\ IF e = "nil" THEN pc' = "goStdout" /\ UNCHANGED <<ret, rdClosed>>
           ELSE pc' = "returned" /\ ret' = e /\ rdClosed' = {"stderr"}
    /\ UNCHANGED <<wg, state, log, procVars, pipeVars, outVars, errVars>>

\* go processStdout(&wg, t, stdout)
GoProcessStdout ==
    /\ pc = "goStdout"
    /\ pc' = "goStderr" /\ outPC' = "scan"
    /\ UNCHANGED <<ret, err, rdClosed, wg, state, log, procVars, pipeVars,
                   outBuf, outEOF, logStr, outLines, errVars>>

\* go processStderr(&wg, t, stderr)
GoProcessStderr ==
    /\ pc = "goStderr"
    /\ pc' = "wgAdd" /\ errPC' = "scan"
    /\ UNCHANGED <<ret, err, rdClosed, wg, state, log, procVars, pipeVars,
                   outVars, errBuf, errEOF, errLines>>

\* WgAdd that raises the counter by one only
WgAdd_One ==
    /\ pc = "wgAdd"
    /\ wg' = wg + 1 /\ pc' = "rsyncRun"
    /\ UNCHANGED <<ret, err, rdClosed, state, log, procVars, pipeVars, outVars, errVars>>
\* wg.Add(2)
WgAdd ==
    /\ pc = "wgAdd"
    /\ wg' = wg + 2 /\ pc' = "rsyncRun"
    /\ UNCHANGED <<ret, err, rdClosed, state, log, procVars, pipeVars, outVars, errVars>>

\* err = t.rsync.Run(), first half: the external process is started
RsyncStart ==
    /\ pc = "rsyncRun"
    /\ pc' = "rsyncWait" /\ proc' = "running"
    /\ outPend' \in StdoutStreams /\ errPend' \in StderrStreams /\ order' \in Orders
    /\ UNCHANGED <<ret, err, rdClosed, wg, state, log, exitErr, outSent, errSent,
                   pipeVars, outVars, errVars>>

\* err = t.rsync.Run(), second half: the wait for the process's exit returns
RsyncWait ==
    /\ pc = "rsyncWait" /\ proc = "exited"
    /\ err' = exitErr /\ pc' = "wgWait"
    /\ UNCHANGED <<ret, rdClosed, wg, state, log, procVars, pipeVars, outVars, errVars>>

\* WgWait that does not wait for the counter to reach zero
WgWait_NoBarrier ==
    /\ pc = "wgWait"
    /\ pc' = "returned" /\ ret' = err /\ rdClosed' = {"stdout", "stderr"}
    /\ UNCHANGED <<err, wg, state, log, procVars, pipeVars, outVars, errVars>>

\* wg.Wait(); return err  (the deferred Close calls run on the return)
WgWait ==
    /\ pc = "wgWait" /\ wg = 0
    /\ pc' = "returned" /\ ret' = err /\ rdClosed' = {"stdout", "stderr"}
    /\ UNCHANGED <<err, wg, state, log, procVars, pipeVars, outVars, errVars>>

----------------------------------------------------------------------------
(* The external process *)

\* the stream the process writes its next byte to
nextStream ==
    IF outPend = <<>> THEN "stderr"
    ELSE IF errPend = <<>> THEN "stdout"
    ELSE CASE order = "outFirst" -> "stdout"
           [] order = "errFirst" -> "stderr"
           [] OTHER -> IF (Len(outSent) + Len(errSent)) % 2 = 0 THEN "stdout" ELSE "stderr"

\* a write of one byte; it blocks while the pipe is full
ProcWrite ==
    /\ proc = "running" /\ (outPend # <<>> \/ errPend # <<>>)
    /\ IF nextStream = "stdout"
       THEN /\ Len(outPipe) < PipeCap
            /\ outPipe' = Append(outPipe, Head(outPend))
            /\ outSent' = Append(outSent, Head(outPend))
            /\ outPend' = Tail(outPend)
            /\ UNCHANGED <<errPipe, errSent, errPend>>
       ELSE /\ Len(errPipe) < PipeCap
            /\ errPipe' = Append(errPipe, Head(errPend))
            /\ errSent' = Append(errSent, Head(errPend))
            /\ errPend' = Tail(errPend)
            /\ UNCHANGED <<outPipe, outSent, outPend>>
    /\ UNCHANGED <<runVars, wg, state, log, proc, exitErr, order, outVars, errVars>>

\* the process has written everything: it exits, which closes its ends of the pipes
ProcExit ==
    /\ proc = "running" /\ outPend = <<>> /\ errPend = <<>>
    /\ proc' = "exited" /\ exitErr' \in ExitErrors
    /\ UNCHANGED <<runVars, wg, state, log, order, outPend, errPend, outSent, errSent,
                   pipeVars, outVars, errVars>>

----------------------------------------------------------------------------
(* bufio.Scanner.Scan: the split function is called on the buffered bytes  *)
(* once there are some or the input has ended; without a token the scanner *)
(* reads more, and gives up when its buffer is full.                       *)

scanSplit(buf, eof, progressSplit) ==
    IF buf = <<>> /\ ~eof THEN NoToken
    ELSE IF progressSplit THEN scanProgressLines(buf, eof) ELSE ScanLines(buf, eof)

\* the scanner has to read: no token in the buffer, input not ended, room left
scanMustRead(buf, eof, progressSplit) ==
    ~scanSplit(buf, eof, progressSplit).has /\ ~eof /\ Len(buf) < MaxScanTokenSize

\* Scan returns false: the input has ended and is used up, or the buffer is
\* full without a token (bufio.ErrTooLong)
scanStops(buf, eof, progressSplit) ==
    ~scanSplit(buf, eof, progressSplit).has /\ (eof \/ Len(buf) >= MaxScanTokenSize)

\* the number of bytes one read takes from the pipe
readSize(buf, pipe) == Min(Len(pipe), MaxScanTokenSize - Len(buf))

----------------------------------------------------------------------------
(* processStdout *)

\* scanner.Scan() reads from the stdout pipe (and blocks while it is empty
\* and the process still has it open)
StdoutRead ==
    /\ pc # "panic" /\ outPC = "scan" /\ scanMustRead(outBuf, outEOF, TRUE)
    /\ \/ /\ "stdout" \in rdClosed
          /\ outEOF' = TRUE /\ UNCHANGED <<outBuf, outPipe>>
       \/ /\ "stdout" \notin rdClosed /\ outPipe # <<>>
          /\ outBuf' = outBuf \o Take(outPipe, readSize(outBuf, outPipe))
          /\ outPipe' = Drop(outPipe, readSize(outBuf, outPipe))
          /\ UNCHANGED outEOF
       \/ /\ "stdout" \notin rdClosed /\ outPipe = <<>> /\ proc = "exited"
          /\ outEOF' = TRUE /\ UNCHANGED <<outBuf, outPipe>>
    /\ UNCHANGED <<runVars, wg, state, log, procVars, errPipe, outPC, logStr, outLines, errVars>>

\* scanner.Scan() returns true; logStr := scanner.Text()
StdoutToken ==
    /\ pc # "panic" /\ outPC = "scan" /\ scanSplit(outBuf, outEOF, TRUE).has
    /\ logStr' = scanSplit(outBuf, outEOF, TRUE).token
    /\ outBuf' = Drop(outBuf, scanSplit(outBuf, outEOF, TRUE).advance)
    /\ outLines' = Append(outLines, scanSplit(outBuf, outEOF, TRUE).token)
    /\ outPC' = "remain"
    /\ UNCHANGED <<runVars, wg, state, log, procVars, pipeVars, outEOF, errVars>>

\* what one store of the loop body leaves alone
storeFrame == <<runVars, wg, log, procVars, pipeVars, outBuf, outEOF, logStr, outLines, errVars>>

\* task.state.Remain, _ = getTaskProgress(...)
StdoutStoreRemain ==
    /\ pc # "panic" /\ outPC = "remain"
    /\ state' = storeRemain(state, logStr) /\ outPC' = "total"
    /\ UNCHANGED storeFrame

\* _, task.state.Total = getTaskProgress(...)
StdoutStoreTotal ==
    /\ pc # "panic" /\ outPC = "total"
    /\ state' = storeTotal(state, logStr) /\ outPC' = "progress"
    /\ UNCHANGED storeFrame

\* task.state.Progress = copiedCount / math.Max(...) * maxPercents
StdoutStoreProgress ==
    /\ pc # "panic" /\ outPC = "progress"
    /\ state' = storeProgress(state, logStr) /\ outPC' = "speed"
    /\ UNCHANGED storeFrame

\* task.state.Speed = getTaskSpeed(...)
StdoutStoreSpeed ==
    /\ pc # "panic" /\ outPC = "speed"
    /\ state' = storeSpeed(state, logStr) /\ outPC' = "bytes"
    /\ UNCHANGED storeFrame

\* task.state.TransferedBytes, _ = getTaskTransfered(...)
StdoutStoreBytes ==
    /\ pc # "panic" /\ outPC = "bytes"
    /\ state' = storeBytes(state, logStr) /\ outPC' = "percent"
    /\ UNCHANGED storeFrame

\* _, task.state.TransferedPercent = getTaskTransfered(...)
StdoutStorePercent ==
    /\ pc # "panic" /\ outPC = "percent"
    /\ state' = storePercent(state, logStr) /\ outPC' = "filename"
    /\ UNCHANGED storeFrame

\* task.state.Filename = logStr
StdoutStoreFilename ==
    /\ pc # "panic" /\ outPC = "filename"
    /\ state' = storeFilename(state, logStr) /\ outPC' = "log"
    /\ UNCHANGED storeFrame

\* task.log.Stdout += logStr + "\n"
StdoutAppendLog ==
    /\ pc # "panic" /\ outPC = "log"
    /\ log' = appendStdout(log, logStr) /\ outPC' = "scan"
    /\ UNCHANGED <<runVars, wg, state, procVars, pipeVars, outBuf, outEOF, logStr, outLines, errVars>>

\* scanner.Scan() returns false: the loop ends
StdoutStop ==
    /\ pc # "panic" /\ outPC = "scan" /\ scanStops(outBuf, outEOF, TRUE)
    /\ outPC' = "exit"
    /\ UNCHANGED <<runVars, wg, state, log, procVars, pipeVars, outBuf, outEOF, logStr, outLines, errVars>>

\* wg.Done(): it panics when the counter would become negative
wgDone(n) == n - 1

\* defer wg.Done()
StdoutDone ==
    /\ pc # "panic" /\ outPC = "exit"
    /\ outPC' = "done" /\ wg' = wgDone(wg)
    /\ pc' = IF wgDone(wg) < 0 THEN "panic" ELSE pc
    /\ UNCHANGED <<ret, err, rdClosed, state, log, procVars, pipeVars,
                   outBuf, outEOF, logStr, outLines, errVars>>

----------------------------------------------------------------------------
(* processStderr *)

StderrRead ==
    /\ pc # "panic" /\ errPC = "scan" /\ scanMustRead(errBuf, errEOF, FALSE)
    /\ \/ /\ "stderr" \in rdClosed
          /\ errEOF' = TRUE /\ UNCHANGED <<errBuf, errPipe>>
       \/ /\ "stderr" \notin rdClosed /\ errPipe # <<>>
          /\ errBuf' = errBuf \o Take(errPipe, readSize(errBuf, errPipe))
          /\ errPipe' = Drop(errPipe, readSize(errBuf, errPipe))
          /\ UNCHANGED errEOF
       \/ /\ "stderr" \notin rdClosed /\ errPipe = <<>> /\ proc = "exited"
          /\ errEOF' = TRUE /\ UNCHANGED <<errBuf, errPipe>>
    /\ UNCHANGED <<runVars, wg, state, log, procVars, outPipe, errPC, errLines, outVars>>

\* scanner.Scan() returns true; task.log.Stderr += scanner.Text() + "\n"
StderrLine ==
    /\ pc # "panic" /\ errPC = "scan" /\ scanSplit(errBuf, errEOF, FALSE).has
    /\ log' = appendStderr(log, scanSplit(errBuf, errEOF, FALSE).token)
    /\ errBuf' = Drop(errBuf, scanSplit(errBuf, errEOF, FALSE).advance)
    /\ errLines' = Append(errLines, scanSplit(errBuf, errEOF, FALSE).token)
    /\ UNCHANGED <<runVars, wg, state, procVars, pipeVars, errPC, errEOF, outVars>>

StderrStop ==
    /\ pc # "panic" /\ errPC = "scan" /\ scanStops(errBuf, errEOF, FALSE)
    /\ errPC' = "exit"
    /\ UNCHANGED <<runVars, wg, state, log, procVars, pipeVars, errBuf, errEOF, errLines, outVars>>

\* defer wg.Done()
StderrDone ==
    /\ pc # "panic" /\ errPC = "exit"
    /\ errPC' = "done" /\ wg' = wgDone(wg)
    /\ pc' = IF wgDone(wg) < 0 THEN "panic" ELSE pc
    /\ UNCHANGED <<ret, err, rdClosed, state, log, procVars, pipeVars,
                   errBuf, errEOF, errLines, outVars>>

----------------------------------------------------------------------------
(* The program *)

RunNext ==
    \/ RunStderrPipe \/ RunStdoutPipe \/ GoProcessStdout \/ GoProcessStderr
    \/ WgAdd \/ RsyncStart \/ RsyncWait \/ WgWait

ProcNext == ProcWrite \/ ProcExit

StdoutNext ==
    \/ StdoutRead \/ StdoutToken \/ StdoutStoreRemain \/ StdoutStoreTotal
    \/ StdoutStoreProgress \/ StdoutStoreSpeed \/ StdoutStoreBytes
    \/ StdoutStorePercent \/ StdoutStoreFilename \/ StdoutAppendLog
    \/ StdoutStop \/ StdoutDone

StderrNext == StderrRead \/ StderrLine \/ StderrStop \/ StderrDone

Next == RunNext \/ ProcNext \/ StdoutNext \/ StderrNext

Spec == Init /\ [][Next]_vars

\* every goroutine that can take a step eventually takes one, and so does
\* the external process
FairSpec == Spec /\ WF_vars(RunNext) /\ WF_vars(ProcNext)
                 /\ WF_vars(StdoutNext) /\ WF_vars(StderrNext)

----------------------------------------------------------------------------
(* The loop body of processStdout alone, over lines of rsync's output *)

LineCatalog == {
    <<"9", "9", "9", ",", "9", "9", "9", " ", "9", "9", "%", " ", " ", "9", "9", "9", ".",
      "9", "9", "k", "B", "/", "s", " ", " ", " ", " ", "0", ":", "0", "0", ":", "5", "9",
      " ", "(", "x", "f", "r", "#", "9", ",", " ", "t", "o", "-", "c", "h", "k", "=",
      "9", "9", "9", "/", "9", "9", "9", "9", ")">>,
    <<"1", ".", "5", "K", " ", "8", "%", " ", "2", ".", "5", "0", "M", "B", "/", "s", " ",
      "(", "x", ",", " ", "i", "r", "-", "c", "h", "k", "=", "3", "/", "4", ")">>,
    <<"(", "x", "-", "c", "h", "k", "=", "5", "/", "3", ")">>,
    <<"(", "x", "-", "c", "h", "k", "=", "7", "/", "0", ")">>,
    <<"(", "y", "-", "c", "h", "k", "=", "1", "2", "3", "4", "5", ")">>,
    <<"s", "o", "m", "e", "/", "p", "a", "t", "h", "/", "f", "i", "l", "e", ".", "t", "x", "t">>,
    <<"s", "a", "l", "e", " ", "5", "0", "0", "%", ".", "t", "x", "t">>,
    <<"-", "5", " ", "-", "7", "%">>,
    <<"s", "e", "n", "d", "i", "n", "g", " ", "i", "n", "c", "r", "e", "m", "e", "n", "t",
      "a", "l", " ", "f", "i", "l", "e", " ", "l", "i", "s", "t">>,
    <<"d", "i", "r", "/">>,
    <<>>,
    <<" ", "7", " ", "1", "0", "0", "%">>,
    <<"1", "2", "3", ",", "4", "5", "6", " ", "7", "8", "%", " ", " ", "8", "7", ".",
      "6", "5", "k", "B", "/", "s">>,
    <<"2", "1", ".", "9", "0", "G", " ", " ", "9", "8", "%", " ", " ", "4", "2", "8",
      ".", "4", "6", "M", "B", "/", "s">>,
    <<"8", "7", ".", "6", "5", "k", "B", " ", "5", "%">>,
    <<"8", "7", ".", "6", "5", "K", "B", " ", "5", "%">>,
    <<"1", ".", "5", "T", " ", "1", "%">>,
    <<"2", "M", "B", " ", "3", "%">>,
    <<"s", "e", "r", "v", "e", "r", ".", "l", "o", "g">>,
    <<"(", "a", "-", "c", "h", "k", "=", "7", "/", "8", ")", " ", "(", "b", "-", "c",
      "h", "k", "=", "1", "/", "2", ")">>,
    <<" ", " ", "9", "M", " ", "6", "8", "%", " ", "(", "x", "f", "r", "#", "7", ",",
      " ", "t", "o", "-", "c", "h", "k", "=", "1", "1", "/", "1", "3", ")">> }

\* both drains are running and the process is writing
InitLines ==
    /\ pc = "rsyncWait" /\ ret = "none" /\ err = "nil" /\ wg = 2
    /\ state = EmptyState /\ log = EmptyLog
    /\ proc = "running" /\ exitErr = "nil" /\ order = "outFirst"
    /\ outPend = <<>> /\ errPend = <<>> /\ outPipe = <<>> /\ errPipe = <<>>
    /\ rdClosed = {}
    /\ outPC = "scan" /\ outBuf = <<>> /\ outEOF = FALSE /\ logStr = <<>>
    /\ errPC = "scan" /\ errBuf = <<>> /\ errEOF = FALSE
    /\ outLines = <<>> /\ errLines = <<>> /\ outSent = <<>> /\ errSent = <<>>

\* the scanner returns the line l and the loop body runs over it
FeedLine ==
    /\ outPC = "scan" /\ Len(outLines) < MaxFeed
    /\ \E l \in LineCatalog :
        /\ logStr' = l
        /\ state' = processStdoutLine(state, l)
        /\ log' = appendStdout(log, l)
        /\ outLines' = Append(outLines, l)
    /\ UNCHANGED <<runVars, wg, procVars, pipeVars, outPC, outBuf, outEOF, errVars>>

SpecLines == InitLines /\ [][FeedLine]_vars

----------------------------------------------------------------------------
(* Properties *)

Abs(n) == IF n < 0 THEN 0 - n ELSE n
RECURSIVE GCD(_, _)
GCD(a, b) == IF b = 0 THEN a ELSE GCD(b, a % b)
\* a rational in lowest terms
Norm(a) ==
    LET g == GCD(Abs(a.num), Abs(a.den))
    IN  IF g = 0 THEN a ELSE [num |-> a.num \div g, den |-> a.den \div g]
\* equality and order of rationals with positive denominators
RatEq(a, b) == Norm(a) = Norm(b)
RatLeq(a, b) == a.num * b.den <= b.num * a.den
Rat(n) == [num |-> n, den |-> 1]

Last(s) == s[Len(s)]

\* each line followed by a newline, in order
RECURSIVE JoinNL(_)
JoinNL(lines) == IF lines = <<>> THEN <<>> ELSE Head(lines) \o <<LF>> \o JoinNL(Tail(lines))

\* the lines of a whole stream, as its split function cuts them when it is
\* handed the stream in one piece
RECURSIVE AllTokens(_, _)
AllTokens(stream, progressSplit) ==
    IF stream = <<>> THEN <<>>
    ELSE LET r == scanSplit(stream, TRUE, progressSplit)
         IN  <<r.token>> \o AllTokens(Drop(stream, r.advance), progressSplit)

\* the record after the loop body has run over each of the lines
RECURSIVE FoldLines(_, _)
FoldLines(st, lines) ==
    IF lines = <<>> THEN st ELSE FoldLines(processStdoutLine(st, Head(lines)), Tail(lines))

\* the stdout lines whose pass through the loop body is complete
outProcessed ==
    IF outPC \in {"remain", "total", "progress", "speed", "bytes", "percent", "filename", "log"}
    THEN Take(outLines, Len(outLines) - 1) ELSE outLines

\* C1: both drains are started before the wait for the process's exit begins,
\* and once that wait has been performed both drains have signalled completion.
C1_ExitWaitAfterDrains ==
    /\ pc \in {"rsyncWait", "wgWait"} => (outPC # "idle" /\ errPC # "idle")
    /\ pc = "wgWait" => (outPC = "done" /\ errPC = "done")

\* the process is in a write to a full pipe that no drain will read again
BlockedForever ==
    /\ proc = "running"
    /\ \/ outPend # <<>> /\ nextStream = "stdout" /\ Len(outPipe) = PipeCap
          /\ outPC \in {"exit", "done"}
       \/ errPend # <<>> /\ nextStream = "stderr" /\ Len(errPipe) = PipeCap
          /\ errPC \in {"exit", "done"}

\* C2: whatever finite output the process writes, it is never blocked forever
\* on a full pipe that is no longer read (so that Task.Run can return).
C2_NeverBlockedForever == ~BlockedForever

\* C3: when the process exits with an error, Task.Run returns exactly that
\* error, after both drains have completed, and State() and Log() are then
\* what the loop bodies make of every line the process wrote.
C3_FailingRunKeepsEverything ==
    (pc = "returned" /\ proc = "exited" /\ exitErr # "nil") =>
        /\ ret = exitErr
        /\ outPC = "done" /\ errPC = "done"
        /\ State = FoldLines(EmptyState, AllTokens(outSent, TRUE))
        /\ Log = [Stderr |-> JoinNL(AllTokens(errSent, FALSE)),
                  Stdout |-> JoinNL(AllTokens(outSent, TRUE))]

\* C4: when obtaining the stderr or the stdout stream fails, Task.Run returns
\* that error in the same step, and then no drain has been started, the
\* process has not been started and the state and the log are still empty.
NothingStarted ==
    /\ outPC = "idle" /\ errPC = "idle" /\ proc = "notStarted" /\ wg = 0
    /\ State = EmptyState /\ Log = EmptyLog
PipeFailureStep ==
    (pc \in {"new", "stdoutPipe"} /\ err' # "nil") => (pc' = "returned" /\ ret' = err')
C4_PipeFailureReturnsAtOnce ==
    /\ []((pc = "returned" /\ ret \in PipeErrors \ {"nil"}) => NothingStarted)
    /\ [][PipeFailureStep]_vars

C4_Witness == pc = "returned" /\ ret = "pipe error" /\ rdClosed = {"stderr"}

\* C5: State() and Log() are empty until the process is started, and no step
\* taken before Run is called or after Run has returned changes them.
FrozenOutsideRun == pc \in {"new", "returned"} => (State' = State /\ Log' = Log)
C5_Lifecycle ==
    /\ [](proc = "notStarted" => (State = EmptyState /\ Log = EmptyLog))
    /\ [][FrozenOutsideRun]_vars

C5_Witness ==
    /\ pc = "returned" /\ ret = "exit status 1"
    /\ State.Total = 2 /\ State.Remain = 0 /\ Log.Stderr # <<>> /\ Log.Stdout # <<>>

\* C6: in every snapshot State() can return, Progress is the value computed
\* from the Remain and Total of the same snapshot.
C6_SnapshotConsistent == RatEq(State.Progress, progressOf(State.Remain, State.Total))

\* C7 as stated: after a line matched by the counter matcher, with counter
\* remaining/total, Progress equals (total - remaining) / max(total, 1).
C7_ProgressIsFraction ==
    (outLines # <<>> /\ progressMatch(Last(outLines))) =>
        LET c == getTaskProgress(progressExtract(Last(outLines)))
        IN  RatEq(state.Progress, [num |-> c.total - c.remain, den |-> Max(c.total, 1)])

\* C7 as amended: after a line matched by the counter matcher, with counter
\* remaining/total, Remain and Total are that counter and Progress equals
\* (total - remaining) / max(total, 1) * 100.
C7_ProgressIsPercentage ==
    (outLines # <<>> /\ progressMatch(Last(outLines))) =>
        LET c == getTaskProgress(progressExtract(Last(outLines)))
        IN  /\ state.Remain = c.remain /\ state.Total = c.total
            /\ state.Progress.den # 0
            /\ RatEq(state.Progress, [num |-> (c.total - c.remain) * 100, den |-> Max(c.total, 1)])

C7_Witness ==
    /\ Len(outLines) = 2 /\ progressMatch(outLines[1]) /\ progressMatch(outLines[2])
    /\ state.Remain = 7 /\ state.Total = 0 /\ RatEq(state.Progress, Rat(0 - 700))

C9_TransferedRange ==
    /\ state.TransferedPercent \in 0..100
    /\ ~state.TransferedBytes.neg

\* C10: each log is the text of the lines processed so far on its stream, in
\* arrival order and each followed by a newline, and every step leaves the
\* old log as a prefix of the new one.
LogsGrow == IsPrefixOf(log.Stdout, log'.Stdout) /\ IsPrefixOf(log.Stderr, log'.Stderr)
C10_LogsAppendOnly ==
    /\ [](log.Stdout = JoinNL(outProcessed) /\ log.Stderr = JoinNL(errLines))
    /\ [][LogsGrow]_vars

C10_Witness ==
    /\ Len(outLines) = 2 /\ outLines[1] # outLines[2] /\ outPC = "done"
    /\ log.Stdout = JoinNL(outLines) /\ log.Stderr # <<>>

----------------------------------------------------------------------------
(* Unit conversion *)

\* the text of l after its leading blanks
RECURSIVE TrimLeft(_)
TrimLeft(l) == IF l # <<>> /\ l[1] = " " THEN TrimLeft(Drop(l, 1)) ELSE l
\* the size token of a progress line: its first word
SizeToken(l) ==
    LET i == IndexAny(TrimLeft(l), {" "})
    IN  IF i = 0 THEN TrimLeft(l) ELSE Take(TrimLeft(l), i - 1)
\* the digits that stand directly before the first '%' of l
PercentDigits(l) ==
    LET p == IndexAny(l, {"%"})
        b == CHOOSE k \in 1..p : AllDigits(SubSeq(l, k, p - 1))
                                 /\ (k = 1 \/ l[k - 1] \notin Digits)
    IN  SubSeq(l, b, p - 1)
\* l is a size token, blanks, a percentage and nothing further with a '%'
IsSizeLine(l) ==
    LET p == IndexAny(l, {"%"})
        w == Len(l) - Len(TrimLeft(l)) + Len(SizeToken(l))
    IN  /\ p > 0 /\ IndexAny(Drop(l, p), {"%"}) = 0
        /\ SizeToken(l) # <<>> /\ PercentDigits(l) # <<>>
        /\ w < p - Len(PercentDigits(l))
        /\ \A k \in (w + 1)..(p - Len(PercentDigits(l)) - 1) : l[k] = " "

\* size tokens and the byte counts number x 1024^k truncated, hi * 10^6 + lo:
\* 21.90 x 1024^3 = 23514945945.6, 87.65 x 1024 = 89753.6,
\* 1.5 x 1024^4 = 1649267441664, 2 x 1024^2 = 2097152, 9 x 1024^2 = 9437184;
\* "sale" is not a number and "kB" is not one of the suffixes
SizeExamples == {
    [token |-> <<"1", "2", "3", ",", "4", "5", "6">>, hi |-> 0, lo |-> 123456],
    [token |-> <<"2", "1", ".", "9", "0", "G">>, hi |-> 23514, lo |-> 945945],
    [token |-> <<"8", "7", ".", "6", "5", "k", "B">>, hi |-> 0, lo |-> 0],
    [token |-> <<"8", "7", ".", "6", "5", "K", "B">>, hi |-> 0, lo |-> 89753],
    [token |-> <<"1", ".", "5", "T">>, hi |-> 1649267, lo |-> 441664],
    [token |-> <<"2", "M", "B">>, hi |-> 2, lo |-> 97152],
    [token |-> <<"1", ".", "5", "K">>, hi |-> 0, lo |-> 1536],
    [token |-> <<"9", "M">>, hi |-> 9, lo |-> 437184],
    [token |-> <<"9", "9", "9", ",", "9", "9", "9">>, hi |-> 0, lo |-> 999999],
    [token |-> <<"s", "a", "l", "e">>, hi |-> 0, lo |-> 0],
    [token |-> <<"7">>, hi |-> 0, lo |-> 7] }
\* the same with "87.65kB" read as 87.65 x 1024
SizeExamplesAnyCase == {
    [token |-> <<"1", "2", "3", ",", "4", "5", "6">>, hi |-> 0, lo |-> 123456],
    [token |-> <<"2", "1", ".", "9", "0", "G">>, hi |-> 23514, lo |-> 945945],
    [token |-> <<"8", "7", ".", "6", "5", "k", "B">>, hi |-> 0, lo |-> 89753],
    [token |-> <<"8", "7", ".", "6", "5", "K", "B">>, hi |-> 0, lo |-> 89753],
    [token |-> <<"1", ".", "5", "T">>, hi |-> 1649267, lo |-> 441664],
    [token |-> <<"2", "M", "B">>, hi |-> 2, lo |-> 97152],
    [token |-> <<"1", ".", "5", "K">>, hi |-> 0, lo |-> 1536],
    [token |-> <<"9", "M">>, hi |-> 9, lo |-> 437184],
    [token |-> <<"9", "9", "9", ",", "9", "9", "9">>, hi |-> 0, lo |-> 999999],
    [token |-> <<"s", "a", "l", "e">>, hi |-> 0, lo |-> 0],
    [token |-> <<"7">>, hi |-> 0, lo |-> 7] }

\* the last line fed is a size line whose token is in the table, and the
\* record holds the table's byte count and the digits before the '%'
ConvertsAsIn(examples) ==
    (outLines # <<>> /\ IsSizeLine(Last(outLines))
       /\ \E e \in examples : e.token = SizeToken(Last(outLines)))
    => /\ \E e \in examples :
            /\ e.token = SizeToken(Last(outLines))
            /\ state.TransferedBytes = [neg |-> FALSE, hi |-> e.hi, lo |-> e.lo]
       /\ state.TransferedPercent = DecVal(PercentDigits(Last(outLines)))

\* C11 as stated: the size token of a progress line is converted to the
\* truncated number x 1024^k for its unit suffix, with "87.65kB" giving
\* 89753, and the percentage is the digits before the '%'.
C11_UnitConversionAnyCase == ConvertsAsIn(SizeExamplesAnyCase)

\* C11 amended: the suffix is one of K KB M MB G GB T TB in upper case; any
\* other token, "87.65kB" included, is malformed numeric text and gives 0.
C11_UnitConversion == ConvertsAsIn(SizeExamples)

C11_Witness ==
    /\ outLines # <<>> /\ IsSizeLine(Last(outLines))
    /\ SizeToken(Last(outLines)) = <<"2", "1", ".", "9", "0", "G">>
    /\ state.TransferedBytes = [neg |-> FALSE, hi |-> 23514, lo |-> 945945]
    /\ state.TransferedPercent = 98

----------------------------------------------------------------------------
(* Counter extraction *)

\* l ends in a trailer "(" ... "-chk=" R "/" T ")" whose "-chk=" is at c, R
\* and T being runs of digits
TrailerAt(l, c) ==
    LET rest  == SubSeq(l, c + Len(Chk), Len(l) - 1)
        slash == IndexAny(rest, {"/"})
    IN  /\ l # <<>> /\ l[Len(l)] = ")"
        /\ OccursAt(l, Chk, c)
        /\ \E a \in 1..(c - 2) : l[a] = "("
        /\ slash > 1 /\ slash < Len(rest)
        /\ AllDigits(Take(rest, slash - 1)) /\ AllDigits(Drop(rest, slash))
HasTrailer(l) == \E c \in 1..Len(l) : TrailerAt(l, c)
\* the counter R/T of the trailer
TrailerCounter(l) ==
    LET c     == CHOOSE k \in 1..Len(l) : TrailerAt(l, k)
        rest  == SubSeq(l, c + Len(Chk), Len(l) - 1)
        slash == IndexAny(rest, {"/"})
    IN  [remain |-> DecVal(Take(rest, slash - 1)), total |-> DecVal(Drop(rest, slash))]

\* C12: a line that ends in a trailer (...X-chk=R/T) is matched by the counter
\* matcher and leaves Remain = R and Total = T, whatever the prefix X; a
\* capture without a '/' gives (0, 0), and that is the only way the two
\* counters differ from the numbers written in the capture.
C12_CounterExtraction ==
    outLines # <<>> =>
        LET l   == Last(outLines)
            cap == progressExtract(l)
        IN  /\ HasTrailer(l) =>
                /\ progressMatch(l)
                /\ state.Remain = TrailerCounter(l).remain
                /\ state.Total = TrailerCounter(l).total
            /\ (progressMatch(l) /\ IndexAny(cap, {"/"}) = 0) =>
                (state.Remain = 0 /\ state.Total = 0)
            /\ (progressMatch(l) /\ (state.Remain # 0 \/ state.Total # 0)) =>
                IndexAny(cap, {"/"}) # 0

C12_Witness ==
    /\ Len(outLines) = 2
    /\ outLines[1] = <<"(", "x", "-", "c", "h", "k", "=", "5", "/", "3", ")">>
    /\ outLines[2] = <<"(", "a", "-", "c", "h", "k", "=", "7", "/", "8", ")", " ",
                       "(", "b", "-", "c", "h", "k", "=", "1", "/", "2", ")">>
    /\ HasTrailer(outLines[2]) /\ state.Remain = 1 /\ state.Total = 2

----------------------------------------------------------------------------
(* Line splitting over reads *)

\* C13: the lines the stdout drain has been handed so far are the first lines
\* of the stream written so far, as the Line Splitter cuts them when it sees
\* the stream in one piece, however the bytes were divided over the reads;
\* a "\r\n" pair ends one line and never yields an extra empty line.
C13_SplitIndependentOfReads == IsPrefixOf(outLines, AllTokens(outSent, TRUE))

\* C14: when the stderr drain is done, the stderr log is the text of the lines
\* the Line Splitter of stdout cuts from the stderr stream (a bare "\r" ends
\* a line as "\n" does), each followed by a newline.
C14_StderrSplitLikeStdout ==
    errPC = "done" => log.Stderr = JoinNL(AllTokens(errSent, TRUE))

----------------------------------------------------------------------------
(* Termination of the drains *)

\* C15: a drain that has left its loop (and so signals completion) has seen
\* the end of its stream: the process has exited and every byte it wrote to
\* that stream has been read from the pipe and handed out as a line.
C15_DrainStopsOnlyAtEnd ==
    /\ outPC \in {"exit", "done"} =>
        (proc = "exited" /\ outPipe = <<>> /\ outBuf = <<>> /\ outEOF)
    /\ errPC \in {"exit", "done"} =>
        (proc = "exited" /\ errPipe = <<>> /\ errBuf = <<>> /\ errEOF)

----------------------------------------------------------------------------
(* Filename classification *)

\* the words of the classifier's denylist as the claim C16 lists them
DenyWords == {
    <<"b", "u", "i", "l", "d", "i", "n", "g", " ", "f", "i", "l", "e", " ", "l", "i", "s", "t">>,
    <<"s", "e", "n", "d", "i", "n", "g">>,
    <<"c", "r", "e", "a", "t", "e", "d">>,
    <<"d", "o", "n", "e">>,
    <<"t", "o", "t", "a", "l">>,
    <<"t", "o", "t", "a", "l", ":">>,
    <<"c", "l", "i", "e", "n", "t">>,
    <<"s", "e", "r", "v", "e", "r">>,
    <<"t", "o", " ", "c", "o", "n", "s", "i", "d", "e", "r">>,
    <<"t", "o", "-", "c", "h", "k", "=">>,
    <<"t", "o", "-", "c", "h", "e", "c", "k", "=">> }
\* the same, each with the blank that follows it in rsync's messages
DenyPhrases == {
    <<"b", "u", "i", "l", "d", "i", "n", "g", " ", "f", "i", "l", "e", " ", "l", "i", "s", "t", " ">>,
    <<"s", "e", "n", "d", "i", "n", "g", " ">>,
    <<"c", "r", "e", "a", "t", "e", "d", " ">>,
    <<"d", "o", "n", "e">>,
    <<"t", "o", "t", "a", "l", " ">>,
    <<"t", "o", "t", "a", "l", ":", " ">>,
    <<"c", "l", "i", "e", "n", "t", " ">>,
    <<"s", "e", "r", "v", "e", "r", " ">>,
    <<"t", "o", " ", "c", "o", "n", "s", "i", "d", "e", "r">>,
    <<"t", "o", "-", "c", "h", "k", "=">>,
    <<"t", "o", "-", "c", "h", "e", "c", "k", "=">> }

\* l is non-empty, does not start with a blank or with "sent", does not end
\* with "/", and no piece of l is in deny
Accepted(l, deny) ==
    /\ l # <<>> /\ l[1] # " " /\ l[Len(l)] # "/"
    /\ ~(Len(l) >= 4 /\ SubSeq(l, 1, 4) = <<"s", "e", "n", "t">>)
    /\ \A i \in 1..Len(l) : \A j \in i..Len(l) : SubSeq(l, i, j) \notin deny
\* the last accepted line among lines, none: the empty text
RECURSIVE LastAccepted(_, _)
LastAccepted(lines, deny) ==
    IF lines = <<>> THEN <<>>
    ELSE IF Accepted(Last(lines), deny) THEN Last(lines)
    ELSE LastAccepted(Take(lines, Len(lines) - 1), deny)

\* C16 as stated: Filename is, verbatim, the last line processed that is
\* non-empty, starts neither with a blank nor with "sent", does not end with
\* "/" and contains none of the words "sending", "created", "done", "total",
\* "total:", "client", "server", "to consider", "to-chk=", "to-check=",
\* "building file list".
C16_FilenameByWords == state.Filename = LastAccepted(outLines, DenyWords)

\* C16 amended: the same with the denylist entries "building file list ",
\* "sending ", "created ", "total ", "total: ", "client " and "server "
\* ending in a blank, so that a name that merely contains such a word is
\* accepted.
C16_FilenameClassifier == state.Filename = LastAccepted(outLines, DenyPhrases)

C16_Witness ==
    /\ Len(outLines) = 2
    /\ outLines[1] = <<"s", "e", "r", "v", "e", "r", ".", "l", "o", "g">>
    /\ outLines[2] = <<"d", "i", "r", "/">>
    /\ state.Filename = outLines[1]

----------------------------------------------------------------------------
(* Frame of one line *)

\* the character c occurs in l
HasChar(l, c) == \E i \in 1..Len(l) : l[i] = c

\* one line is processed and every field whose extractor did not fire on it
\* is as it was: the speed when the line holds no "/s" or the speed matcher
\* does not match, the counters and the progress when it holds no "-chk=" or
\* the counter matcher does not match, the bytes and the percentage when it
\* holds no '%', the file name when the line is not classified as a name
LineFrame ==
    LET l == logStr'
    IN  /\ (~Contains(l, <<"/", "s">>) \/ ~speedMatch(l)) => state'.Speed = state.Speed
        /\ (~Contains(l, Chk) \/ ~progressMatch(l)) =>
              /\ state'.Remain = state.Remain /\ state'.Total = state.Total
              /\ state'.Progress = state.Progress
        /\ (~HasChar(l, "%") \/ ~transferedMatch(l)) =>
              /\ state'.TransferedBytes = state.TransferedBytes
              /\ state'.TransferedPercent = state.TransferedPercent
        /\ ~isFilename(l) => state'.Filename = state.Filename

\* the line at the largest of the positions at, none: the empty text
LastAt(lines, at) == IF at = {} THEN <<>> ELSE lines[MaxOf(at)]

\* each field holds what its extractor gives on the most recent line it
\* fired on, and its initial value when it has fired on none
HeldFromLastMatch ==
    LET at == DOMAIN outLines
        sp == LastAt(outLines, {i \in at : speedMatch(outLines[i])})
        pr == LastAt(outLines, {i \in at : progressMatch(outLines[i])})
        tr == LastAt(outLines, {i \in at : transferedMatch(outLines[i])})
        bySpeed    == processStdoutLine(EmptyState, sp)
        byProgress == processStdoutLine(EmptyState, pr)
        byTransfer == processStdoutLine(EmptyState, tr)
    IN  /\ state.Speed = bySpeed.Speed
        /\ state.Remain = byProgress.Remain
        /\ state.Total = byProgress.Total
        /\ state.Progress = byProgress.Progress
        /\ state.TransferedBytes = byTransfer.TransferedBytes
        /\ state.TransferedPercent = byTransfer.TransferedPercent

\* C17: processing a stdout line leaves unchanged every field whose extractor
\* did not fire on that line, and every field holds the value of the most
\* recent line its extractor fired on, never an older or a reset one.
C17_LineFrame == [][LineFrame]_vars /\ []HeldFromLastMatch

C17_Witness ==
    /\ Len(outLines) = 2
    /\ speedMatch(outLines[1]) /\ progressMatch(outLines[1]) /\ transferedMatch(outLines[1])
    /\ outLines[2] = <<"s", "o", "m", "e", "/", "p", "a", "t", "h", "/",
                       "f", "i", "l", "e", ".", "t", "x", "t">>
    /\ state.Speed # <<>> /\ state.Total # 0 /\ state.TransferedPercent # 0
    /\ state.Filename = outLines[2]

----------------------------------------------------------------------------
(* Ownership of the shared record *)

\* a step of the stderr drain changes nothing of the record and the logs but
\* log.Stderr, and a step of the stdout drain leaves log.Stderr alone
DisjointStep ==
    /\ StderrNext => (state' = state /\ log'.Stdout = log.Stdout)
    /\ StdoutNext => log'.Stderr = log.Stderr

\* between two lines the record and the stdout log are determined by the
\* stdout lines alone, and the stderr log by the stderr lines alone
OwnedByStream ==
    /\ outPC \in {"idle", "scan", "exit", "done"} =>
          /\ state = FoldLines(EmptyState, outLines)
          /\ log.Stdout = JoinNL(outLines)
    /\ log.Stderr = JoinNL(errLines)

\* C18: in every interleaving a step of the stderr drain changes only the
\* stderr log and a step of the stdout drain never changes it, so no field is
\* written by both drains; the record and the stdout log depend on the
\* stdout lines only and the stderr log on the stderr lines only.
C18_DisjointOwnership == [][DisjointStep]_vars /\ []OwnedByStream

C18_Witness ==
    /\ outPC = "done" /\ errPC = "done"
    /\ outLines # <<>> /\ errLines # <<>>
    /\ state.Remain = 0 /\ state.Total = 2
    /\ log.Stderr = JoinNL(errLines) /\ log.Stdout = JoinNL(outLines)

----------------------------------------------------------------------------
(* The completion barrier *)

\* the drains that have called wg.Done()
DrainsDone == {d \in {"stdout", "stderr"} :
                 (d = "stdout" /\ outPC = "done") \/ (d = "stderr" /\ errPC = "done")}

\* C19: the counter of the barrier is raised to 2 before either drain can
\* leave its loop and signal completion, it never becomes negative (wg.Done
\* never panics), and Task.Run does not get past wg.Wait() before both drains
\* have signalled completion.
C19_BarrierSound ==
    /\ wg >= 0 /\ pc # "panic"
    /\ (outPC \in {"exit", "done"} \/ errPC \in {"exit", "done"}) =>
          pc \in {"rsyncWait", "wgWait", "returned"}
    /\ pc \in {"rsyncRun", "rsyncWait", "wgWait"} => wg = 2 - Cardinality(DrainsDone)
    /\ (pc = "returned" /\ (outPC # "idle" \/ errPC # "idle")) =>
          (DrainsDone = {"stdout", "stderr"} /\ wg = 0)

C19_Witness ==
    /\ pc = "returned" /\ proc = "exited" /\ wg = 0
    /\ DrainsDone = {"stdout", "stderr"}
    /\ outLines # <<>> /\ errLines # <<>>

----------------------------------------------------------------------------
(* Progress lines and the file name *)

\* C20: a line on which the counter matcher fires never becomes the current
\* file name: after such a line has been processed, Filename is not that
\* line, whatever the prefix before "-chk=" and with or without leading
\* blanks.
C20_ProgressLineNotFilename ==
    (outLines # <<>> /\ progressMatch(Last(outLines))) => state.Filename # Last(outLines)

====
